---- MODULE Spec2Model ----
(***************************************************************************)
(* Cache lifecycle of the portfolio site's service worker (src/sw.js):     *)
(* install populates the bucket named CACHE_NAME, activate deletes every   *)
(* other bucket, fetch answers cache-first.  A deployment is one version   *)
(* of sw.js, i.e. one value of CACHE_NAME and of ASSETS_TO_CACHE.  The     *)
(* handlers are asynchronous, so each one is a sequence of steps at its    *)
(* await points, and the browser's registration (installing, waiting and   *)
(* active worker) schedules them.  The second part is the simulated feed   *)
(* of the demo dashboard (src/unnamed/part_000): the component's states    *)
(* and the interval timer whose callback updates them.                     *)
(***************************************************************************)
EXTENDS Integers, Sequences, FiniteSets, TLC

\* ---------------------------------------------------------------- bounds
MaxDeploys   == 2    \* versions of sw.js deployed in one behaviour
MaxFetches   == 1    \* fetch events the active worker holds at once
MaxPublishes == 1    \* changes of the site content on the server
MaxConcurrent == 2   \* fetch events in flight at once, where they are compared
ChartLen     == 2    \* points of the chart window (50 in the source)
MaxTicks     == 3    \* timer callbacks in one behaviour
MaxMounts    == 2    \* mounts of the component in one behaviour
MaxClicks    == 6    \* interactions in one behaviour

\* --------------------------------------------- values of the two constants
\* CACHE_NAME values a deployment may carry (sw.js line 1 carries the first).
CacheNameValues == {"v1", "v2"}

\* ASSETS_TO_CACHE values a deployment may carry: ordered lists of locators.
AssetListValues ==
    { <<"/">>, <<"/", "/blog.html">> }

\* Locators a page may request: one every version lists and one that only
\* the longer list holds, so that a version with the short list does not list it.
Locators == {"/", "/blog.html"}

VARIABLES
    deploys,          \* number of versions deployed so far
    installing,       \* registration's installing worker
    waiting,          \* registration's waiting worker
    active,           \* registration's active worker
    activeState,      \* "none", "deleting", "activated"
    toDelete,         \* caches.delete calls of the activate handler not yet settled
    activateOk,       \* the activate handler's promise has not rejected
    cacheNames,       \* CacheStorage: existing bucket names in creation order
    store,            \* CacheStorage: bucket name -> sequence of entries
    rev,              \* revision of the content the network serves
    fetches,          \* fetch events of the active worker: slot -> record
    openedSinceKeys,  \* history: buckets opened since the running activate
                      \* handler called caches.keys()
    console,          \* the distinct lines the workers have logged
    \* the dashboard component App (src/unnamed/part_000)
    appPc,            \* "unmounted", "rendered" (effects not yet run), "mounted"
    mounts,           \* number of times the component has been mounted
    timers,           \* number of live interval timers
    tickPc,           \* position of the running timer callback, or "idle"
    now,              \* the clock, in seconds
    chartData,        \* state: sequence of points [time, value]
    sectors,          \* state: sector name -> change
    tickerData,       \* state: ticker symbol -> [price, change]
    portfolioValue,   \* state: the portfolio value
    clickCount,       \* state: interactions counted by handleInteraction
    showDemoModal,    \* state: the demo modal is shown
    modalContent,     \* state: the modal's title
    clickTimerRef,    \* ref: id of the reset timeout last scheduled, 0 for null
    timeouts,         \* pending reset timeouts: [id, owner, remaining]
    clicks,           \* number of interactions so far
    idle,             \* history: time since the mounted component's last interaction
    run               \* history: interactions of the current run

swVars == << deploys, installing, waiting, active, activeState,
             toDelete, activateOk, cacheNames, store, rev, fetches,
             openedSinceKeys, console >>

clickVars == << clickCount, showDemoModal, modalContent, clickTimerRef,
                timeouts, clicks, idle, run >>

feedVars == << appPc, mounts, timers, tickPc, now, chartData, sectors,
               tickerData, portfolioValue, clickVars >>

vars == << swVars, feedVars >>

\* ------------------------------------------------------------------ values
NoPred == [CACHE_NAME |-> "", ASSETS_TO_CACHE |-> << >>]

NoWorker == [id |-> 0, CACHE_NAME |-> "", ASSETS_TO_CACHE |-> << >>, installOk |-> FALSE,
             pred |-> NoPred, rerun |-> FALSE]

NoEntry == [url |-> "", body |-> 0]

NoHit == [from |-> "", resp |-> NoEntry]

IdleFetch == [pc |-> "idle", url |-> "", source |-> "", from |-> "",
              resp |-> NoEntry, netReqs |-> 0]

\* The slots the active worker has for fetch events.
Slots == DOMAIN fetches

Range(s) == { s[i] : i \in 1..Len(s) }

\* ------------------------------------------------- Cache and CacheStorage
\* A faulty cache.put: the new entry is appended and the matching ones stay.
PutAppend(bucket, entry) == bucket \o << entry >>

\* cache.put: the entries matching the request are replaced by the new one.
Put(bucket, entry) ==
    SelectSeq(bucket, LAMBDA e : e.url # entry.url) \o << entry >>

\* The response the network gives for a locator.
NetworkResponse(url) == [url |-> url, body |-> rev]

\* A faulty cache.addAll: only the first locator of the list is stored.
AddAllFirst(bucket, list) ==
    IF list = << >> THEN bucket
    ELSE Put(bucket, NetworkResponse(Head(list)))

\* A faulty cache.addAll: the bucket's former entries are dropped.
RECURSIVE AddAllReplace(_, _)
AddAllReplace(bucket, list) ==
    IF list = << >> THEN << >>
    ELSE Put(AddAllReplace(bucket, Tail(list)), NetworkResponse(Head(list)))

\* cache.addAll once every request has been fetched: one put per locator.
RECURSIVE AddAll(_, _)
AddAll(bucket, list) ==
    IF list = << >> THEN bucket
    ELSE AddAll(Put(bucket, NetworkResponse(Head(list))), Tail(list))

\* cache.match: the first entry of the bucket stored under the locator.
CacheMatch(bucket, url) ==
    LET hits == SelectSeq(bucket, LAMBDA e : e.url = url)
    IN  IF hits = << >> THEN NoEntry ELSE Head(hits)

\* caches.match: the buckets are searched in creation order, first hit wins.
RECURSIVE MatchIn(_, _)
MatchIn(names, url) ==
    IF names = << >> THEN NoHit
    ELSE IF CacheMatch(store[Head(names)], url) # NoEntry
         THEN [from |-> Head(names), resp |-> CacheMatch(store[Head(names)], url)]
         ELSE MatchIn(Tail(names), url)

CachesMatch(url) == MatchIn(cacheNames, url)

\* caches.open: the bucket is created, empty, when no bucket has the name.
CachesOpen(name) ==
    IF name \in Range(cacheNames) THEN cacheNames ELSE Append(cacheNames, name)

\* A faulty caches.delete: every bucket leaves the storage.
CachesDeleteAll(name) == << >>

\* caches.delete: the bucket leaves the storage with all its entries.
CachesDelete(name) == SelectSeq(cacheNames, LAMBDA n : n # name)

\* The bucket exists and holds an entry for every locator of the list.
BucketHolds(name, list) ==
    /\ name \in Range(cacheNames)
    /\ \A i \in 1..Len(list) : CacheMatch(store[name], list[i]) # NoEntry

\* A fetch event whose respondWith promise has not settled.
Pending(f) == f.pc \in {"match", "network"}

\* The slots once the event in slot s is answered with record f: the record
\* stays as the answer last given, the one given before it is dropped.
Answered(s, f) ==
    [t \in Slots |-> IF t = s THEN f
                     ELSE IF fetches[t].pc = "done" THEN IdleFetch
                     ELSE fetches[t]]

\* -------------------------------------------------------------------- Init
\* The dashboard before its component is rendered.
FeedInit ==
    /\ appPc = "unmounted"
    /\ mounts = 0
    /\ timers = 0
    /\ tickPc = "idle"
    /\ now = 0
    /\ chartData = << >>
    /\ sectors = << >>
    /\ tickerData = << >>
    /\ portfolioValue = 0
    /\ clickCount = 0
    /\ showDemoModal = FALSE
    /\ modalContent = ""
    /\ clickTimerRef = 0
    /\ timeouts = {}
    /\ clicks = 0
    /\ idle = 0
    /\ run = 0

Init ==
    /\ deploys = 0
    /\ installing = NoWorker
    /\ waiting = NoWorker
    /\ active = NoWorker
    /\ activeState = "none"
    /\ toDelete = {}
    /\ activateOk = TRUE
    /\ cacheNames = << >>
    /\ store = [n \in CacheNameValues |-> << >>]
    /\ rev = 0
    /\ fetches = [s \in 1..MaxFetches |-> IdleFetch]
    /\ openedSinceKeys = {}
    /\ console = {}
    /\ FeedInit

\* ----------------------------------------------------------- environment
\* A version of sw.js is deployed and the browser starts its worker: the
\* install event is dispatched, the handler calls caches.open(CACHE_NAME),
\* which resolves, and then cache.addAll(ASSETS_TO_CACHE).
Install(name, assets) ==
    /\ installing = NoWorker
    /\ deploys < MaxDeploys
    /\ deploys' = deploys + 1
    /\ installing' =
         [id |-> deploys + 1, CACHE_NAME |-> name, ASSETS_TO_CACHE |-> assets,
          installOk |-> FALSE,
          pred |-> IF /\ activeState = "activated"
                      /\ waiting = NoWorker
                      /\ BucketHolds(active.CACHE_NAME, active.ASSETS_TO_CACHE)
                   THEN [CACHE_NAME |-> active.CACHE_NAME, ASSETS_TO_CACHE |-> active.ASSETS_TO_CACHE]
                   ELSE NoPred,
          rerun |-> FALSE]
    /\ cacheNames' = CachesOpen(name)
    /\ openedSinceKeys' = IF activeState = "deleting"
                          THEN openedSinceKeys \cup {name}
                          ELSE openedSinceKeys
    /\ console' = console \cup {"Caching all assets"}
    /\ UNCHANGED feedVars
    /\ UNCHANGED << waiting, active, activeState, toDelete, activateOk,
                    store, rev, fetches >>

\* The site's content changes on the server.
Publish ==
    /\ rev < MaxPublishes
    /\ rev' = rev + 1
    /\ UNCHANGED feedVars
    /\ UNCHANGED << console, deploys, installing, waiting, active,
                    activeState, toDelete, activateOk, cacheNames, store,
                    fetches, openedSinceKeys >>

\* ----------------------------------------------------------------- install
\* The bucket as cache.addAll leaves it when every fetch succeeded.  The
\* handle obtained from caches.open outlives a caches.delete of the name:
\* the entries then go to the detached cache and the storage has no bucket.
StoreAfterAddAll(name, assets) ==
    IF name \in Range(cacheNames)
    THEN [store EXCEPT ![name] = AddAll(store[name], assets)]
    ELSE store

\* The worker's bucket exists and already holds, for every locator of the
\* worker's list, the response the network gives now.
Populated(w) ==
    /\ w.CACHE_NAME \in Range(cacheNames)
    /\ \A i \in 1..Len(w.ASSETS_TO_CACHE) :
         CacheMatch(store[w.CACHE_NAME], w.ASSETS_TO_CACHE[i]) = NetworkResponse(w.ASSETS_TO_CACHE[i])

\* Every asset was fetched: cache.addAll stores them all, waitUntil's promise
\* fulfils and the worker becomes the waiting worker (replacing the former).
InstallAddAllOk ==
    /\ installing # NoWorker
    /\ store' = StoreAfterAddAll(installing.CACHE_NAME, installing.ASSETS_TO_CACHE)
    /\ waiting' =
         [installing EXCEPT !.installOk = TRUE,
                            !.rerun = Populated(installing)]
    /\ installing' = NoWorker
    /\ UNCHANGED feedVars
    /\ UNCHANGED << console, deploys, active, activeState, toDelete, activateOk,
                    cacheNames, rev, fetches, openedSinceKeys >>

\* A faulty install handler: the rejection of cache.addAll is swallowed,
\* waitUntil's promise fulfils and the worker becomes the waiting worker.
InstallAddAllFailSwallowed ==
    /\ installing # NoWorker
    /\ waiting' = installing
    /\ installing' = NoWorker
    /\ UNCHANGED feedVars
    /\ UNCHANGED << console, deploys, active, activeState, toDelete, activateOk,
                    cacheNames, store, rev, fetches, openedSinceKeys >>

\* One asset could not be fetched: cache.addAll rejects and stores nothing,
\* waitUntil's promise rejects and the browser discards the worker.
InstallAddAllFail ==
    /\ installing # NoWorker
    /\ installing' = NoWorker
    /\ UNCHANGED feedVars
    /\ UNCHANGED << console, deploys, waiting, active, activeState, toDelete,
                    activateOk, cacheNames, store, rev, fetches,
                    openedSinceKeys >>

\* ---------------------------------------------------------------- activate
\* A faulty activate handler: the comparison with CACHE_NAME is inverted.
StaleNamesInverted(names, current) == { n \in Range(names) : n = current }

\* The names the activate handler deletes among those caches.keys() gave.
StaleNames(names, current) == { n \in Range(names) : n # current }

\* The browser promotes the waiting worker: there is no active worker, or the
\* active one is activated, has no pending event and controls no page.  The
\* replaced worker is discarded with the events it has answered.  The
\* activate event is dispatched, the handler calls caches.keys(), which
\* resolves, and then caches.delete for every name that differs from
\* CACHE_NAME; it waits for all of them.
ActivateStart ==
    /\ waiting # NoWorker
    /\ \/ active = NoWorker
       \/ /\ activeState = "activated"
          /\ \A s \in Slots : ~Pending(fetches[s])
    /\ active' = [waiting EXCEPT !.rerun = FALSE]
    /\ waiting' = NoWorker
    /\ activeState' = "deleting"
    /\ activateOk' = TRUE
    /\ toDelete' = StaleNames(cacheNames, waiting.CACHE_NAME)
    /\ openedSinceKeys' = {}
    /\ fetches' = [s \in Slots |-> IdleFetch]
    /\ console' = IF StaleNames(cacheNames, waiting.CACHE_NAME) = {}
                  THEN console
                  ELSE console \cup {"Clearing old cache"}
    /\ UNCHANGED feedVars
    /\ UNCHANGED << deploys, installing, cacheNames, store, rev >>

\* One caches.delete succeeds.
ActivateDeleteOk(n) ==
    /\ activeState = "deleting"
    /\ n \in toDelete
    /\ cacheNames' = CachesDelete(n)
    /\ store' = [store EXCEPT ![n] = << >>]
    /\ toDelete' = toDelete \ {n}
    /\ UNCHANGED feedVars
    /\ UNCHANGED << console, deploys, installing, waiting, active,
                    activeState, activateOk, rev, fetches, openedSinceKeys >>

\* A faulty activate handler: a caches.delete that failed is called again.
ActivateDeleteFailRetry(n) ==
    /\ activeState = "deleting"
    /\ n \in toDelete
    /\ activateOk' = FALSE
    /\ UNCHANGED feedVars
    /\ UNCHANGED << console, deploys, installing, waiting, active,
                    activeState, toDelete, cacheNames, store, rev, fetches,
                    openedSinceKeys >>

\* One caches.delete fails: the bucket stays and Promise.all rejects.
ActivateDeleteFail(n) ==
    /\ activeState = "deleting"
    /\ n \in toDelete
    /\ toDelete' = toDelete \ {n}
    /\ activateOk' = FALSE
    /\ UNCHANGED feedVars
    /\ UNCHANGED << console, deploys, installing, waiting, active,
                    activeState, cacheNames, store, rev, fetches,
                    openedSinceKeys >>

\* Every delete has settled: the handler is over and the worker is activated,
\* whether waitUntil's promise fulfilled or rejected.
ActivateDone ==
    /\ activeState = "deleting"
    /\ toDelete = {}
    /\ activeState' = "activated"
    /\ openedSinceKeys' = {}
    /\ UNCHANGED feedVars
    /\ UNCHANGED << console, deploys, installing, waiting, active,
                    toDelete, activateOk, cacheNames, store, rev, fetches >>

\* ------------------------------------------------------------------- fetch
\* A page under the worker's scope requests a locator: the fetch event goes
\* to the activated worker, whose handler calls caches.match(event.request).
FetchStart(s, url) ==
    /\ activeState = "activated"
    /\ ~Pending(fetches[s])
    /\ \A t \in 1..(s - 1) : Pending(fetches[t])
    /\ fetches' = [fetches EXCEPT ![s] =
         [IdleFetch EXCEPT !.pc = "match", !.url = url]]
    /\ UNCHANGED feedVars
    /\ UNCHANGED << console, deploys, installing, waiting, active,
                    activeState, toDelete, activateOk, cacheNames, store,
                    rev, openedSinceKeys >>

\* A faulty fetch handler: on a miss it calls fetch only when no other
\* event's network request is in flight, and fails the event otherwise.
AfterMatchOneRequestAtATime(f, hit) ==
    IF hit # NoHit
    THEN [f EXCEPT !.pc = "done", !.source = "cache", !.from = hit.from,
                   !.resp = hit.resp]
    ELSE IF \E t \in Slots : fetches[t].pc = "network"
         THEN [f EXCEPT !.pc = "done", !.source = "error"]
         ELSE [f EXCEPT !.pc = "network", !.netReqs = f.netReqs + 1]

\* The record of a fetch event once caches.match has resolved with hit: on a
\* hit the handler returns the stored response, on a miss it calls fetch.
AfterMatch(f, hit) ==
    IF hit # NoHit
    THEN [f EXCEPT !.pc = "done", !.source = "cache", !.from = hit.from,
                   !.resp = hit.resp]
    ELSE [f EXCEPT !.pc = "network", !.netReqs = f.netReqs + 1]

\* A faulty fetch handler: on a hit the stored response is given and the
\* request goes to the network all the same.
FetchMatchAlsoNetwork(s) ==
    /\ fetches[s].pc = "match"
    /\ LET hit == CachesMatch(fetches[s].url)
       IN  fetches' = [fetches EXCEPT ![s] =
             IF hit # NoHit
             THEN [fetches[s] EXCEPT !.pc = "network", !.source = "cache",
                                     !.from = hit.from, !.resp = hit.resp,
                                     !.netReqs = fetches[s].netReqs + 1]
             ELSE [fetches[s] EXCEPT !.pc = "network",
                                     !.netReqs = fetches[s].netReqs + 1]]
    /\ UNCHANGED feedVars
    /\ UNCHANGED << console, deploys, installing, waiting, active,
                    activeState, toDelete, activateOk, cacheNames, store,
                    rev, openedSinceKeys >>

\* caches.match resolves.
FetchMatch(s) ==
    /\ fetches[s].pc = "match"
    /\ LET f == AfterMatch(fetches[s], CachesMatch(fetches[s].url))
       IN  fetches' = IF f.pc = "done" THEN Answered(s, f)
                      ELSE [fetches EXCEPT ![s] = f]
    /\ UNCHANGED feedVars
    /\ UNCHANGED << console, deploys, installing, waiting, active,
                    activeState, toDelete, activateOk, cacheNames, store,
                    rev, openedSinceKeys >>

\* A faulty fetch handler: the network's response is written to the current
\* bucket.
StoreAfterNetworkWriteBack(f) ==
    IF active.CACHE_NAME \in Range(cacheNames)
    THEN [store EXCEPT ![active.CACHE_NAME] =
            Put(store[active.CACHE_NAME], NetworkResponse(f.url))]
    ELSE store

\* The buckets once the network has answered a missed request: the handler
\* returns the response without storing it.
StoreAfterNetwork(f) == store

\* fetch(event.request) resolves: its response answers the event.
FetchNetworkOk(s) ==
    /\ fetches[s].pc = "network"
    /\ fetches' = Answered(s,
         [fetches[s] EXCEPT !.pc = "done", !.source = "network",
                            !.resp = NetworkResponse(fetches[s].url)])
    /\ store' = StoreAfterNetwork(fetches[s])
    /\ UNCHANGED feedVars
    /\ UNCHANGED << console, deploys, installing, waiting, active,
                    activeState, toDelete, activateOk, cacheNames, rev,
                    openedSinceKeys >>

\* A faulty fetch handler: when fetch(event.request) rejects, the event is
\* answered with the entry stored for '/', if there is one.
FetchNetworkFailOffline(s) ==
    /\ fetches[s].pc = "network"
    /\ fetches' = Answered(s,
         IF CachesMatch("/") # NoHit
         THEN [fetches[s] EXCEPT !.pc = "done", !.source = "cache",
                                 !.from = CachesMatch("/").from,
                                 !.resp = CachesMatch("/").resp]
         ELSE [fetches[s] EXCEPT !.pc = "done", !.source = "error"])
    /\ UNCHANGED feedVars
    /\ UNCHANGED << console, deploys, installing, waiting, active,
                    activeState, toDelete, activateOk, cacheNames, store,
                    rev, openedSinceKeys >>

\* fetch(event.request) rejects: the rejection answers the event.
FetchNetworkFail(s) ==
    /\ fetches[s].pc = "network"
    /\ fetches' = Answered(s,
         [fetches[s] EXCEPT !.pc = "done", !.source = "error"])
    /\ UNCHANGED feedVars
    /\ UNCHANGED << console, deploys, installing, waiting, active,
                    activeState, toDelete, activateOk, cacheNames, store,
                    rev, openedSinceKeys >>

\* ============================================================ the dashboard
\* The demo dashboard's component App (src/unnamed/part_000): its simulated
\* feed.  Numbers are integers: a chart value and a change are counted in
\* units, one second is one unit of time.

\* useState(124500.00)
InitialPortfolioValue == 124500

\* Values of 100 + Math.random() * 20, the value of an initial point.
InitialValues == {1, 2}

\* Values of (Math.random() - 0.5) * 5, the change of one tick.
Changes == {-2, 0, 2}

\* The first entry of SECTORS and of TICKERS.
SECTORS == << [name |-> "Tech", weight |-> 30] >>

TICKERS == << "BTC" >>

\* Values of (Math.random() - 0.5) * 4 and of (Math.random() - 0.5) * 0.2.
SectorChanges == {-1, 1}

\* Values of 100 + Math.random() * 1000.
InitialPrices == {100}

\* Values of (Math.random() - 0.5) * 2.
TickerMoves == {-1, 1}

Max(a, b) == IF a >= b THEN a ELSE b

\* A faulty generateNextPoint: the sum is not clamped at zero.
generateNextPointUnclamped(prevPrice, change) == prevPrice + change

\* generateNextPoint, change being its draw of (Math.random() - 0.5) * 5.
generateNextPoint(prevPrice, change) == Max(0, prevPrice + change)

\* A faulty initialisation: the series is left empty.
InitDataEmpty(values) == << >>

\* initData: ChartLen points, one per second up to one second ago.
InitData(values) ==
    [i \in 1..ChartLen |-> [time |-> now - (ChartLen - (i - 1)), value |-> values[i]]]

\* A faulty window: the oldest point is kept.
NewDataGrowing(prev, point) == prev \o << point >>

\* newData: [...prev.slice(1), point]
NewData(prev, point) == Tail(prev) \o << point >>

\* A value of totalChange: a number num / den, or what a division by zero gives.
Number(num, den) == [kind |-> "number", num |-> num, den |-> den]

\* totalChange, the memoized value derived from chartData.
totalChange ==
    IF Len(chartData) < 2 THEN Number(0, 1)
    ELSE LET first == chartData[1].value
             last == chartData[Len(chartData)].value
         IN  IF first # 0 THEN Number((last - first) * 100, first)
             ELSE IF last = first THEN [kind |-> "NaN", num |-> 0, den |-> 0]
             ELSE [kind |-> "Infinity", num |-> last - first, den |-> 0]

\* A faulty effect: its cleanup does not clear the interval.
TimersAfterCleanupLeaked(t) == t

\* The live timers once the effect's cleanup has run clearInterval(interval).
TimersAfterCleanup(t) == t - 1

\* The live timers once the effect has run setInterval.
TimersAfterEffect(t) == t + 1

\* The component is rendered for the first time: every useState takes its
\* initial value.
FeedRender ==
    /\ appPc = "unmounted"
    /\ mounts < MaxMounts
    /\ appPc' = "rendered"
    /\ mounts' = mounts + 1
    /\ chartData' = << >>
    /\ sectors' = << >>
    /\ tickerData' = << >>
    /\ portfolioValue' = InitialPortfolioValue
    /\ clickCount' = 0
    /\ showDemoModal' = TRUE
    /\ modalContent' = "UI/UX Showcase"
    /\ clickTimerRef' = 0
    /\ idle' = 0
    /\ run' = 0
    /\ UNCHANGED << timers, tickPc, now, timeouts, clicks >>
    /\ UNCHANGED swVars

\* The effects run after the first render: the first fills the three states,
\* the second starts the interval.  Under StrictMode in development React
\* runs them, runs their cleanups and runs them again.
FeedEffects(values, changes, prices, strict) ==
    /\ appPc = "rendered"
    /\ appPc' = "mounted"
    /\ chartData' = InitData(values)
    /\ sectors' = [i \in 1..Len(SECTORS) |->
                     [name |-> SECTORS[i].name, weight |-> SECTORS[i].weight,
                      change |-> changes[i]]]
    /\ tickerData' = [i \in 1..Len(TICKERS) |->
                        [symbol |-> TICKERS[i], price |-> prices[i], change |-> 0]]
    /\ timers' = IF strict
                 THEN TimersAfterEffect(TimersAfterCleanup(TimersAfterEffect(timers)))
                 ELSE TimersAfterEffect(timers)
    /\ UNCHANGED << mounts, tickPc, now, portfolioValue >>
    /\ UNCHANGED clickVars
    /\ UNCHANGED swVars

\* A faulty component: the interval effect returns no cleanup, so unmounting
\* leaves the timer live.
FeedUnmountNoCleanup ==
    /\ appPc = "mounted"
    /\ tickPc = "idle"
    /\ appPc' = "unmounted"
    /\ UNCHANGED << mounts, timers, tickPc, now, chartData, sectors,
                    tickerData, portfolioValue >>
    /\ UNCHANGED clickVars
    /\ UNCHANGED swVars

\* The component is unmounted between two callbacks: the interval effect's
\* cleanup runs.
FeedUnmount ==
    /\ appPc = "mounted"
    /\ tickPc = "idle"
    /\ appPc' = "unmounted"
    /\ timers' = TimersAfterCleanup(timers)
    /\ UNCHANGED << mounts, tickPc, now, chartData, sectors, tickerData,
                    portfolioValue >>
    /\ UNCHANGED clickVars
    /\ UNCHANGED swVars

\* The portfolio value once pv => pv + (newValue - lastValue) * 100 has been
\* applied for every new value in newValues.
RECURSIVE PortfolioAfter(_, _, _)
PortfolioAfter(pv, lastValue, newValues) ==
    IF newValues = << >> THEN pv
    ELSE PortfolioAfter(pv + (Head(newValues) - lastValue) * 100, lastValue,
                        Tail(newValues))

\* The numbers of times React invokes the updater given to a setter: once,
\* or twice (StrictMode in development), since an updater has to be pure.
Invocations == {1, 2}

\* The timer fires one second after the former callback and its callback
\* starts: setChartData's updater runs, once per invocation with that
\* invocation's draw; every invocation queues its own update of the
\* portfolio value and the series takes the result of one invocation.  On
\* an empty series the updater throws.
FeedTickChart(draws) ==
    /\ timers > 0
    /\ tickPc = "idle"
    /\ appPc # "crashed"
    /\ now < MaxTicks
    /\ now' = now + 1
    /\ IF chartData = << >>
       THEN /\ appPc' = "crashed"
            /\ UNCHANGED << tickPc, chartData, portfolioValue >>
       ELSE LET lastValue == chartData[Len(chartData)].value
                newValues == [k \in 1..Len(draws) |-> generateNextPoint(lastValue, draws[k])]
            IN  /\ chartData' = NewData(chartData, [time |-> now', value |-> newValues[1]])
                /\ portfolioValue' = PortfolioAfter(portfolioValue, lastValue, newValues)
                /\ tickPc' = "sectors"
                /\ UNCHANGED appPc
    /\ UNCHANGED << mounts, timers, sectors, tickerData >>
    /\ UNCHANGED clickVars
    /\ UNCHANGED swVars

\* The callback goes on: setSectors' updater adds a draw to every change.
FeedTickSectors(drifts) ==
    /\ tickPc = "sectors"
    /\ sectors' = [i \in 1..Len(sectors) |->
                     [sectors[i] EXCEPT !.change = sectors[i].change + drifts[i]]]
    /\ tickPc' = "tickers"
    /\ UNCHANGED << appPc, mounts, timers, now, chartData, tickerData,
                    portfolioValue >>
    /\ UNCHANGED clickVars
    /\ UNCHANGED swVars

\* The callback ends: setTickerData's updater moves every price by a draw.
FeedTickTickers(moves) ==
    /\ tickPc = "tickers"
    /\ tickerData' = [i \in 1..Len(tickerData) |->
                        [tickerData[i] EXCEPT !.price = tickerData[i].price + moves[i],
                                              !.change = moves[i]]]
    /\ tickPc' = "idle"
    /\ UNCHANGED << appPc, mounts, timers, now, chartData, sectors,
                    portfolioValue >>
    /\ UNCHANGED clickVars
    /\ UNCHANGED swVars

FeedNext ==
    \/ FeedRender
    \/ \E values \in [1..ChartLen -> InitialValues],
          changes \in [1..Len(SECTORS) -> SectorChanges],
          prices \in [1..Len(TICKERS) -> InitialPrices],
          strict \in BOOLEAN : FeedEffects(values, changes, prices, strict)
    \/ FeedUnmount
    \/ \E n \in Invocations : \E draws \in [1..n -> Changes] : FeedTickChart(draws)
    \/ \E drifts \in [1..Len(SECTORS) -> SectorChanges] : FeedTickSectors(drifts)
    \/ \E moves \in [1..Len(TICKERS) -> TickerMoves] : FeedTickTickers(moves)

FeedSpec == Init /\ [][FeedNext]_vars

\* ------------------------------------------------------ handleInteraction
\* The interaction guard of the component: a counter of interactions, the
\* reset timeout and the demo modal.  Time is counted in milliseconds.

\* if (newCount > 4)
BurstLimit == 4

\* setTimeout(..., 1000)
ResetDelay == 1000

\* The amounts of time that pass between two events.
TimeSteps == {500}

Min(a, b) == IF a <= b THEN a ELSE b

\* A faulty guard: the modal opens once the count reaches the limit.
BurstAtLimit(prev) == prev + 1 >= BurstLimit

\* The updater of setClickCount finds a burst: newCount > 4.
Burst(prev) == prev + 1 > BurstLimit

\* The value the updater of setClickCount returns.
ClickCountAfter(prev) == IF Burst(prev) THEN 0 ELSE prev + 1

\* A faulty handler: the timeout scheduled before is not cleared.
ClearTimeoutNever(pending, id) == pending

\* clearTimeout(id): the pending timeout with that id, if any, is cancelled.
ClearTimeout(pending, id) == { t \in pending : t.id # id }

\* A timeout whose delay has elapsed and whose callback has not run yet; it
\* runs before any later event.
Due == { t \in timeouts : t.remaining = 0 }

\* A control of the mounted component is used: handleInteraction runs.  The
\* updater counts the interaction and on a burst sets the modal's content
\* and shows it; the timeout the ref holds is cleared and a new one is
\* scheduled, whose id the ref takes.
handleInteraction ==
    /\ appPc = "mounted"
    /\ Due = {}
    /\ clicks < MaxClicks
    /\ clicks' = clicks + 1
    /\ clickCount' = ClickCountAfter(clickCount)
    /\ modalContent' = IF Burst(clickCount) THEN "Design Demo" ELSE modalContent
    /\ showDemoModal' = IF Burst(clickCount) THEN TRUE ELSE showDemoModal
    /\ timeouts' = ClearTimeout(timeouts, clickTimerRef)
                     \cup {[id |-> clicks + 1, owner |-> mounts, remaining |-> ResetDelay]}
    /\ clickTimerRef' = clicks + 1
    /\ idle' = 0
    /\ run' = IF idle >= ResetDelay \/ run > BurstLimit THEN 1 ELSE run + 1
    /\ UNCHANGED << appPc, mounts, timers, tickPc, now, chartData, sectors,
                    tickerData, portfolioValue >>
    /\ UNCHANGED swVars

\* The delay of a reset timeout has elapsed: its callback calls
\* setClickCount(0), which sets the state of the component that scheduled
\* it, if that one is still mounted.
ResetFires(t) ==
    /\ t \in Due
    /\ timeouts' = timeouts \ {t}
    /\ clickCount' = IF t.owner = mounts /\ appPc = "mounted" THEN 0 ELSE clickCount
    /\ UNCHANGED << showDemoModal, modalContent, clickTimerRef, clicks, idle, run >>
    /\ UNCHANGED << appPc, mounts, timers, tickPc, now, chartData, sectors,
                    tickerData, portfolioValue >>
    /\ UNCHANGED swVars

\* Time passes with no event, up to the moment the next timeout is due.
TimePasses(d) ==
    /\ timeouts # {} \/ idle < ResetDelay
    /\ \A t \in timeouts : t.remaining >= d
    /\ timeouts' = { [t EXCEPT !.remaining = t.remaining - d] : t \in timeouts }
    /\ idle' = Min(idle + d, ResetDelay)
    /\ UNCHANGED << clickCount, showDemoModal, modalContent, clickTimerRef,
                    clicks, run >>
    /\ UNCHANGED << appPc, mounts, timers, tickPc, now, chartData, sectors,
                    tickerData, portfolioValue >>
    /\ UNCHANGED swVars

\* One of the modal's two buttons is used: setShowDemoModal(false).
CloseModal ==
    /\ appPc = "mounted"
    /\ Due = {}
    /\ showDemoModal
    /\ showDemoModal' = FALSE
    /\ UNCHANGED << clickCount, modalContent, clickTimerRef, timeouts,
                    clicks, idle, run >>
    /\ UNCHANGED << appPc, mounts, timers, tickPc, now, chartData, sectors,
                    tickerData, portfolioValue >>
    /\ UNCHANGED swVars

\* The component's life and its interactions, the feed's timer left aside.
ClickNext ==
    \/ FeedRender
    \/ \E values \in [1..ChartLen -> InitialValues],
          changes \in [1..Len(SECTORS) -> SectorChanges],
          prices \in [1..Len(TICKERS) -> InitialPrices],
          strict \in BOOLEAN : FeedEffects(values, changes, prices, strict)
    \/ FeedUnmount
    \/ handleInteraction
    \/ \E t \in timeouts : ResetFires(t)
    \/ \E d \in TimeSteps : TimePasses(d)
    \/ CloseModal

ClickSpec == Init /\ [][ClickNext]_vars

\* ------------------------------------------------------------------- Next
Next ==
    \/ \E n \in CacheNameValues, a \in AssetListValues : Install(n, a)
    \/ Publish
    \/ InstallAddAllOk
    \/ InstallAddAllFail
    \/ ActivateStart
    \/ \E n \in CacheNameValues : ActivateDeleteOk(n)
    \/ \E n \in CacheNameValues : ActivateDeleteFail(n)
    \/ ActivateDone
    \/ \E s \in Slots, u \in Locators : FetchStart(s, u)
    \/ \E s \in Slots : FetchMatch(s)
    \/ \E s \in Slots : FetchNetworkOk(s)
    \/ \E s \in Slots : FetchNetworkFail(s)

Spec == Init /\ [][Next]_vars

\* The handlers' steps are taken once enabled: the browser settles every
\* promise a handler waits for and promotes a waiting worker.  Deployments,
\* content changes and page requests are the environment's and owe nothing.
FairSpec ==
    /\ Spec
    /\ WF_vars(InstallAddAllOk \/ InstallAddAllFail)
    /\ WF_vars(ActivateStart)
    /\ WF_vars(\E n \in CacheNameValues : ActivateDeleteOk(n) \/ ActivateDeleteFail(n))
    /\ WF_vars(ActivateDone)
    /\ WF_vars(\E s \in Slots : FetchMatch(s))
    /\ WF_vars(\E s \in Slots : FetchNetworkOk(s) \/ FetchNetworkFail(s))

\* The same lifecycle on a storage whose caches.delete never fails.
NextReliable ==
    \/ \E n \in CacheNameValues, a \in AssetListValues : Install(n, a)
    \/ Publish
    \/ InstallAddAllOk
    \/ InstallAddAllFail
    \/ ActivateStart
    \/ \E n \in CacheNameValues : ActivateDeleteOk(n)
    \/ ActivateDone
    \/ \E s \in Slots, u \in Locators : FetchStart(s, u)
    \/ \E s \in Slots : FetchMatch(s)
    \/ \E s \in Slots : FetchNetworkOk(s)
    \/ \E s \in Slots : FetchNetworkFail(s)

ReliableSpec == Init /\ [][NextReliable]_vars

FairReliableSpec ==
    /\ ReliableSpec
    /\ WF_vars(InstallAddAllOk \/ InstallAddAllFail)
    /\ WF_vars(ActivateStart)
    /\ WF_vars(\E n \in CacheNameValues : ActivateDeleteOk(n))
    /\ WF_vars(ActivateDone)
    /\ WF_vars(\E s \in Slots : FetchMatch(s))
    /\ WF_vars(\E s \in Slots : FetchNetworkOk(s) \/ FetchNetworkFail(s))

\* ------------------------------------------------- fetch events in flight
\* The worker of sw.js as deployed (CACHE_NAME 'v1') is activated with its
\* bucket populated, and holds MaxConcurrent slots for fetch events.
ConcurrentInit ==
    /\ \E a \in AssetListValues :
         /\ active = [NoWorker EXCEPT !.id = 1, !.CACHE_NAME = "v1",
                                      !.ASSETS_TO_CACHE = a, !.installOk = TRUE]
         /\ store = [n \in CacheNameValues |->
                       IF n = "v1"
                       THEN [i \in 1..Len(a) |-> [url |-> a[i], body |-> 0]]
                       ELSE << >>]
    /\ deploys = 1
    /\ installing = NoWorker
    /\ waiting = NoWorker
    /\ activeState = "activated"
    /\ toDelete = {}
    /\ activateOk = TRUE
    /\ cacheNames = << "v1" >>
    /\ rev = 0
    /\ fetches = [s \in 1..MaxConcurrent |-> IdleFetch]
    /\ openedSinceKeys = {}
    /\ console = {"Caching all assets"}
    /\ FeedInit

\* The activated worker's fetch events, while the site's content changes and
\* a newer version is installed.
ConcurrentNext ==
    \/ \E n \in CacheNameValues, a \in AssetListValues : Install(n, a)
    \/ Publish
    \/ InstallAddAllOk
    \/ InstallAddAllFail
    \/ \E s \in Slots, u \in Locators : FetchStart(s, u)
    \/ \E s \in Slots : FetchMatch(s)
    \/ \E s \in Slots : FetchNetworkOk(s)
    \/ \E s \in Slots : FetchNetworkFail(s)

ConcurrentSpec == ConcurrentInit /\ [][ConcurrentNext]_vars

\* The activated worker's fetch events alone, while the site's content
\* changes: no other version is deployed.
FetchOnlyNext ==
    \/ Publish
    \/ \E s \in Slots, u \in Locators : FetchStart(s, u)
    \/ \E s \in Slots : FetchMatch(s)
    \/ \E s \in Slots : FetchNetworkOk(s)
    \/ \E s \in Slots : FetchNetworkFail(s)

FetchOnlySpec == ConcurrentInit /\ [][FetchOnlyNext]_vars

\* Every lookup and every network request of a fetch event in flight
\* completes: each slot's promise is settled once it is pending.
FairFetchOnlySpec ==
    /\ FetchOnlySpec
    /\ \A s \in 1..MaxConcurrent :
         /\ WF_vars(FetchMatch(s))
         /\ WF_vars(FetchNetworkOk(s) \/ FetchNetworkFail(s))

\* ------------------------------------------------------------ properties
\* The fetch event in slot s is answered in this step.
AnsweredNow(s) == fetches[s].pc # "done" /\ fetches'[s].pc = "done"

\* An install attempt ends in this step, fulfilled or rejected.
InstallEnds == installing # NoWorker /\ installing' = NoWorker

InstallFulfils == InstallEnds /\ waiting'.id = installing.id

InstallRejects == InstallEnds /\ waiting'.id # installing.id

\* The number of entries a bucket holds under a locator.
Copies(bucket, url) == Len(SelectSeq(bucket, LAMBDA e : e.url = url))

\* C1: every fetch event for a locator of the worker's AssetList is answered
\* from cache, with the response the worker's bucket holds, and without a
\* network request.
C1_ListedLocatorAnsweredFromBucket ==
    [][\A s \in Slots :
         (AnsweredNow(s) /\ fetches'[s].url \in Range(active.ASSETS_TO_CACHE))
           => /\ fetches'[s].source = "cache"
              /\ fetches'[s].netReqs = 0
              /\ fetches'[s].resp = CacheMatch(store[active.CACHE_NAME], fetches'[s].url)
      ]_vars

\* C2 as stated: when the activate handler completes with every delete
\* succeeded, no bucket has a name other than the worker's CACHE_NAME.
C2_OnlyCurrentBucketAtCompletion ==
    [][(activeState = "deleting" /\ activeState' = "activated" /\ activateOk')
         => \A n \in Range(cacheNames') : n = active'.CACHE_NAME
      ]_vars

\* C2 amended: when the activate handler completes with every delete
\* succeeded, every bucket with a name other than the worker's CACHE_NAME
\* was opened by an install after the handler enumerated the bucket names.
C2_OnlyCurrentOrLaterOpenedAtCompletion ==
    [][(activeState = "deleting" /\ activeState' = "activated" /\ activateOk')
         => \A n \in Range(cacheNames') :
              n = active'.CACHE_NAME \/ n \in openedSinceKeys
      ]_vars

\* C2 witness: a version superseded another one with a different CACHE_NAME,
\* its activate handler completed and the older bucket is gone.
C2_Witness ==
    /\ activeState = "activated"
    /\ activateOk
    /\ active.id = 2
    /\ active.pred # NoPred
    /\ active.pred.CACHE_NAME # active.CACHE_NAME
    /\ cacheNames = << active.CACHE_NAME >>

\* C3: a fetch event for a locator that is not in the worker's AssetList is
\* never answered from cache.
C3_UnlistedLocatorNeverFromCache ==
    \A s \in Slots :
      (fetches[s].pc = "done" /\ fetches[s].url \notin Range(active.ASSETS_TO_CACHE))
        => fetches[s].source # "cache"

\* C4: a fetch event answered from cache is answered from the bucket named
\* by the worker's CACHE_NAME.
C4_HitComesFromCurrentBucket ==
    \A s \in Slots :
      (fetches[s].pc = "done" /\ fetches[s].source = "cache")
        => fetches[s].from = active.CACHE_NAME

\* C5: an install attempt either fulfils with every locator of the AssetList
\* stored in the worker's bucket, or rejects with no bucket changed.
C5_InstallAllOrNothing ==
    [][\A w \in {installing} :
         /\ InstallFulfils => BucketHolds(w.CACHE_NAME, w.ASSETS_TO_CACHE)'
         /\ InstallRejects => UNCHANGED << cacheNames, store >>
      ]_vars

\* C6: a worker whose install was rejected is discarded and never becomes the
\* waiting or the active worker; a rejected install attempt, from its
\* caches.open to the rejection, changes neither the registration's workers
\* nor the answer caches.match gives for any locator.
C6_FailedInstallKeepsPreviousVersion ==
    [][/\ (waiting' # NoWorker => waiting'.installOk)
       /\ (active' # NoWorker => active'.installOk)
       /\ InstallRejects =>
            /\ UNCHANGED << waiting, active, activeState, cacheNames, store >>
            /\ \A u \in Locators : CachesMatch(u)' = CachesMatch(u)
       /\ (installing = NoWorker /\ installing' # NoWorker) =>
            /\ UNCHANGED << waiting, active, activeState, store >>
            /\ \A u \in Locators : CachesMatch(u)' = CachesMatch(u)
      ]_vars

\* C6 witness: the second version's install was rejected, leaving its empty
\* bucket; the first version is still the activated worker and has answered
\* a fetch from its bucket.
C6_Witness ==
    /\ deploys = 2
    /\ installing = NoWorker
    /\ waiting = NoWorker
    /\ active.id = 1
    /\ activeState = "activated"
    /\ \E n \in Range(cacheNames) : n # active.CACHE_NAME /\ store[n] = << >>
    /\ \E s \in Slots : /\ fetches[s].pc = "done"
                        /\ fetches[s].source = "cache"
                        /\ fetches[s].from = active.CACHE_NAME

\* The upgrade of C7 has ended: the active worker was deployed while its
\* predecessor was activated with a full bucket and no worker was waiting,
\* it has another CACHE_NAME and lists more locators, its activate handler
\* completed with every delete succeeded, and nothing was deployed since.
UpgradeEnded ==
    /\ activeState = "activated"
    /\ activateOk
    /\ active.pred # NoPred
    /\ active.pred.CACHE_NAME # active.CACHE_NAME
    /\ Range(active.pred.ASSETS_TO_CACHE) \subseteq Range(active.ASSETS_TO_CACHE)
    /\ Range(active.pred.ASSETS_TO_CACHE) # Range(active.ASSETS_TO_CACHE)
    /\ deploys = active.id

\* C7: at the end of the upgrade the predecessor's bucket does not exist, the
\* new bucket holds exactly one entry per locator of the new AssetList, and
\* a fetch for a locator only the new version lists is answered from the new
\* bucket without a network request.
C7_UpgradeSequence ==
    UpgradeEnded =>
      /\ active.pred.CACHE_NAME \notin Range(cacheNames)
      /\ active.CACHE_NAME \in Range(cacheNames)
      /\ \A u \in Range(active.ASSETS_TO_CACHE) : Copies(store[active.CACHE_NAME], u) = 1
      /\ \A u \in Range(active.ASSETS_TO_CACHE) \ Range(active.pred.ASSETS_TO_CACHE) :
           /\ CachesMatch(u).from = active.CACHE_NAME
           /\ \A s \in Slots :
                (fetches[s].url = u /\ fetches[s].pc # "idle")
                  => /\ fetches[s].pc \in {"match", "done"}
                     /\ fetches[s].netReqs = 0
                     /\ fetches[s].pc = "done" =>
                          /\ fetches[s].source = "cache"
                          /\ fetches[s].from = active.CACHE_NAME

\* C7 witness: the upgrade has ended and a fetch for a locator only the new
\* version lists was answered from the new bucket.
C7_Witness ==
    /\ UpgradeEnded
    /\ \E s \in Slots :
         /\ fetches[s].pc = "done"
         /\ fetches[s].url \notin Range(active.pred.ASSETS_TO_CACHE)
         /\ fetches[s].url \in Range(active.ASSETS_TO_CACHE)
         /\ fetches[s].source = "cache"

\* C8: a fulfilled install against a bucket that already holds, for every
\* locator of the AssetList, the response the network gives leaves the bucket
\* with the same entries, as many as before and one per locator.
C8_InstallIdempotent ==
    [][\A w \in {installing} :
         (InstallFulfils /\ Populated(w))
           => /\ Range(store'[w.CACHE_NAME]) = Range(store[w.CACHE_NAME])
              /\ Len(store'[w.CACHE_NAME]) = Len(store[w.CACHE_NAME])
              /\ \A u \in Range(w.ASSETS_TO_CACHE) : Copies(store'[w.CACHE_NAME], u) = 1
      ]_vars

\* C8 witness: the waiting worker's install ran against a bucket already
\* populated with the same responses.
C8_Witness ==
    /\ waiting # NoWorker
    /\ waiting.rerun
    /\ BucketHolds(waiting.CACHE_NAME, waiting.ASSETS_TO_CACHE)

\* C9: a step of a fetch event (its start, its cache lookup, its network
\* answer) leaves the set of buckets and every bucket's entries unchanged.
C9_FetchLeavesBucketsUnchanged ==
    [][(fetches' # fetches /\ active' = active)
         => UNCHANGED << cacheNames, store >>
      ]_vars

\* C9 witness: a missed request was answered by the network while a bucket
\* existed, and the bucket holds no entry for it.
C9_Witness ==
    \E s \in Slots :
      /\ fetches[s].pc = "done"
      /\ fetches[s].source = "network"
      /\ cacheNames # << >>
      /\ CachesMatch(fetches[s].url) = NoHit

\* A stale bucket: it exists under a name that is neither the active worker's
\* CACHE_NAME nor that of a worker being installed or waiting to activate.
Stale(n) ==
    /\ active # NoWorker
    /\ n \notin {active.CACHE_NAME, waiting.CACHE_NAME, installing.CACHE_NAME}
    /\ n \in Range(cacheNames)

\* C10: a stale bucket does not persist forever.
C10_StaleBucketEventuallyRemoved ==
    \A n \in CacheNameValues : Stale(n) ~> ~Stale(n)

\* C11: a fetch event whose lookup misses issues one network request for the
\* request it was given; when the network answers, the event is answered
\* after that one request, with the network's response for the request or,
\* when the request failed, with the failure and no stored response.
C11_MissIsOneRequestAndFailureIsTheAnswer ==
    [][\A s \in Slots :
         /\ (fetches[s].pc = "match" /\ fetches'[s] # fetches[s]
               /\ CachesMatch(fetches[s].url) = NoHit)
              => /\ fetches'[s].pc = "network"
                 /\ fetches'[s].netReqs = 1
                 /\ fetches'[s].url = fetches[s].url
         /\ (fetches[s].pc = "network" /\ fetches'[s] # fetches[s])
              => /\ fetches'[s].pc = "done"
                 /\ fetches'[s].netReqs = 1
                 /\ fetches'[s].url = fetches[s].url
                 /\ fetches'[s].source \in {"network", "error"}
                 /\ fetches'[s].source = "network"
                      => fetches'[s].resp = NetworkResponse(fetches[s].url)
                 /\ fetches'[s].source = "error"
                      => fetches'[s].resp = NoEntry /\ fetches'[s].from = ""
      ]_vars

\* C11 witness: a missed request failed on the network and the failure
\* answered the event, while a bucket held an entry for '/'.
C11_Witness ==
    \E s \in Slots :
      /\ fetches[s].pc = "done"
      /\ fetches[s].source = "error"
      /\ fetches[s].netReqs = 1
      /\ fetches[s].resp = NoEntry
      /\ CachesMatch("/") # NoHit

\* One caches.delete of the running activate handler fails in this step.
DeleteFails ==
    /\ activeState = "deleting"
    /\ \/ activateOk /\ ~activateOk'
       \/ toDelete' # toDelete /\ cacheNames' = cacheNames

\* The lines the handlers log before an operation, whatever its outcome.
ProgressLines == {"Caching all assets", "Clearing old cache"}

\* A delete that failed is not called again by the running handler; every
\* activation calls delete for each existing bucket named differently from
\* its worker, and a delete that succeeds removes the bucket.
DeleteNotRetriedAndRemovedLater ==
    /\ DeleteFails
         => /\ toDelete' # toDelete
            /\ UNCHANGED << cacheNames, store >>
    /\ (activeState = "deleting" /\ activeState' = "deleting")
         => toDelete' \subseteq toDelete
    /\ (activeState # "deleting" /\ activeState' = "deleting")
         => toDelete' = { n \in Range(cacheNames) : n # active'.CACHE_NAME }
    /\ \A n \in CacheNameValues :
         (activeState = "deleting" /\ n \in toDelete /\ n \notin toDelete'
            /\ ~DeleteFails)
           => n \notin Range(cacheNames')

\* C12: a failed delete of a stale bucket is logged, the delete is not
\* called again in that activation, and the next activation whose delete
\* of the bucket succeeds removes it.
C12_DeleteFailureLogged ==
    [][/\ DeleteFails => \E l \in console' : l \notin ProgressLines
       /\ DeleteNotRetriedAndRemovedLater
      ]_vars

\* C12 as the handler behaves: a failed delete logs nothing (the one line
\* of the handler, 'Clearing old cache', is logged before each delete is
\* called); the delete is not called again in that activation, and the next
\* activation whose delete of the bucket succeeds removes it.
C12_DeleteFailureSilent ==
    [][/\ DeleteFails => console' = console
       /\ (activeState # "deleting" /\ activeState' = "deleting" /\ toDelete' # {})
            => "Clearing old cache" \in console'
       /\ console' \subseteq ProgressLines
       /\ DeleteNotRetriedAndRemovedLater
      ]_vars

\* C12 witness: a delete of the running activation failed, no delete is
\* left, and the populated bucket is still there.
C12_Witness ==
    /\ activeState = "deleting"
    /\ ~activateOk
    /\ toDelete = {}
    /\ console \subseteq ProgressLines
    /\ \E n \in Range(cacheNames) : n # active.CACHE_NAME /\ store[n] # << >>

\* The locators the bucket holds an entry for.
Keys(bucket) == { bucket[i].url : i \in 1..Len(bucket) }

\* C13: a bucket leaves the storage, or a locator leaves a bucket, only in a
\* step of a running activate handler that deletes the whole bucket, the
\* bucket being named differently from that handler's worker; installs and
\* fetch events never remove a bucket or a key.
C13_OnlyActivationRemoves ==
    [][\A n \in CacheNameValues :
         (n \in Range(cacheNames)
            /\ \/ n \notin Range(cacheNames')
               \/ ~(Keys(store[n]) \subseteq Keys(store'[n])))
           => /\ activeState = "deleting"
              /\ n \in toDelete
              /\ n # active.CACHE_NAME
              /\ n \notin Range(cacheNames')
              /\ UNCHANGED << installing, waiting, active, fetches >>
      ]_vars

\* C13 witness: the running activate handler has deleted the populated
\* bucket of the version it replaces, and its own bucket is there.
C13_Witness ==
    /\ activeState = "deleting"
    /\ toDelete = {}
    /\ activateOk
    /\ active.pred # NoPred
    /\ active.pred.CACHE_NAME # active.CACHE_NAME
    /\ active.pred.CACHE_NAME \notin Range(cacheNames)
    /\ active.CACHE_NAME \in Range(cacheNames)

\* C14: a worker is activated only after its install fulfilled, and whenever
\* a worker is activated the bucket named by its CACHE_NAME exists and holds
\* an entry for every locator of its list, whatever the interleaving of a
\* newer version's install and an older version's activation.
C14_ActivatedWorkerHasItsAssets ==
    /\ active # NoWorker => active.installOk
    /\ activeState = "activated"
         => BucketHolds(active.CACHE_NAME, active.ASSETS_TO_CACHE)

\* The records a fetch event with record f moves to when it is the only
\* event, against the buckets and the network as they are: after its lookup
\* the stored response or its network request, after its network request
\* the network's response or the failure.
AloneOutcomes(f) ==
    IF f.pc = "match"
    THEN IF CachesMatch(f.url) # NoHit
         THEN { [pc |-> "done", url |-> f.url, source |-> "cache",
                 from |-> CachesMatch(f.url).from,
                 resp |-> CachesMatch(f.url).resp, netReqs |-> 0] }
         ELSE { [pc |-> "network", url |-> f.url, source |-> "", from |-> "",
                 resp |-> NoEntry, netReqs |-> 1] }
    ELSE { [pc |-> "done", url |-> f.url, source |-> "network", from |-> "",
            resp |-> NetworkResponse(f.url), netReqs |-> 1],
           [pc |-> "done", url |-> f.url, source |-> "error", from |-> "",
            resp |-> NoEntry, netReqs |-> 1] }

\* C15: with several fetch events in flight, every step of one event (its
\* lookup, its network answer) gives it the outcome it would have alone
\* against the same buckets and network, whatever the other events' records
\* are, and leaves the other events in flight, the buckets and the network
\* as they are.
C15_ConcurrentFetchesIndependent ==
    [][\A s \in Slots :
         (Pending(fetches[s]) /\ fetches'[s] # fetches[s])
           => /\ fetches'[s] \in AloneOutcomes(fetches[s])
              /\ \A t \in Slots \ {s} :
                   Pending(fetches[t]) => fetches'[t] = fetches[t]
              /\ UNCHANGED << cacheNames, store, rev >>
      ]_vars

\* C15 witness: two events for the same locator missed while both were in
\* flight; one has been answered by the network, the other's own request is
\* still in flight.
C15_Witness ==
    \E s, t \in Slots :
      /\ s # t
      /\ fetches[s].pc = "done"
      /\ fetches[s].source = "network"
      /\ fetches[t].pc = "network"
      /\ fetches[t].url = fetches[s].url
      /\ fetches[t].netReqs = 1

\* C16: every point of the chart series has a value that is not negative.
C16_ChartValuesNonNegative ==
    \A i \in 1..Len(chartData) : chartData[i].value >= 0

\* C16 witness: a tick's change took the last value below zero and the point
\* appended has the value 0 (the changes being even, a 0 after an odd value
\* is a clamped sum).
C16_Witness ==
    /\ Len(chartData) >= 2
    /\ chartData[Len(chartData)].time = now
    /\ chartData[Len(chartData)].value = 0
    /\ chartData[Len(chartData) - 1].value = 1

\* C17: one interval timer exists while the component is mounted and none
\* otherwise; a timer callback starts only when no callback is running, and
\* a running callback applies its update of the chart series and portfolio
\* value, then of the sectors, then of the tickers, each once, before it ends.
C17_TicksNeverOverlap ==
    /\ [](/\ appPc = "mounted" => timers = 1
          /\ appPc # "mounted" => timers = 0 /\ tickPc = "idle")
    /\ [][/\ (tickPc = "idle" /\ tickPc' # "idle")
               => /\ tickPc' = "sectors"
                  /\ chartData' # chartData
                  /\ UNCHANGED << sectors, tickerData >>
          /\ tickPc = "sectors"
               => /\ tickPc' = "tickers"
                  /\ sectors' # sectors
                  /\ UNCHANGED << chartData, portfolioValue, tickerData >>
          /\ tickPc = "tickers"
               => /\ tickPc' = "idle"
                  /\ tickerData' # tickerData
                  /\ UNCHANGED << chartData, portfolioValue, sectors >>
          /\ (tickPc = "idle" /\ tickPc' = "idle" /\ appPc = "mounted")
               => UNCHANGED << chartData, portfolioValue, sectors, tickerData >>
         ]_vars

\* C17 witness: two callbacks have run to their end on the mounted
\* component and one timer is live.
C17_Witness ==
    /\ appPc = "mounted"
    /\ timers = 1
    /\ tickPc = "idle"
    /\ now >= 2

\* The value of the last point of the chart series.
LastValue(data) == data[Len(data)].value

TimesIncrease(data) ==
    \A i \in 1..(Len(data) - 1) : data[i].time < data[i + 1].time

C20_TotalChangeDivisorPositive ==
    /\ Len(chartData) < 2 => totalChange = Number(0, 1)
    /\ Len(chartData) >= 2
         => chartData[1].value > 0 /\ totalChange.kind = "number"

\* C21: a timer callback never finds the chart series empty: whenever one
\* starts, the series holds the points of the initialisation or of former
\* ticks, so the last point it reads exists and no callback throws.
C21_NoTickOnEmptySeries ==
    /\ [](appPc # "crashed")
    /\ [](timers > 0 => chartData # << >>)
    /\ [][now' # now
            => /\ chartData # << >>
               /\ LastValue(chartData) \in Int
               /\ appPc' = appPc
         ]_vars

\* C21 witness: the first callback after a mount has run on the series the
\* initialisation filled.
C21_Witness ==
    /\ appPc = "mounted"
    /\ now = 1
    /\ tickPc = "sectors"
    /\ Len(chartData) = ChartLen
    /\ chartData[1].time < 0

\* handleInteraction runs in this step.
Interacts == clicks' # clicks

\* C22: a run being the interactions since the mount, the last full second
\* without interaction or the last burst, the interaction that is the fifth
\* of its run shows the modal with the title "Design Demo" and sets the
\* counter to 0; an earlier interaction of a run leaves the modal as it is
\* and the counter at its place in the run; and nothing else shows the modal
\* of the mounted component or gives it that title.
C22_BurstOpensModalAtFifth ==
    [][/\ (Interacts /\ run' = 5)
            => /\ showDemoModal'
               /\ modalContent' = "Design Demo"
               /\ clickCount' = 0
       /\ (Interacts /\ run' # 5)
            => /\ run' \in 1..4
               /\ clickCount' = run'
               /\ UNCHANGED << showDemoModal, modalContent >>
       /\ (modalContent' = "Design Demo" /\ modalContent # "Design Demo")
            => Interacts /\ run' = 5
       /\ (appPc = "mounted" /\ ~showDemoModal /\ showDemoModal')
            => Interacts /\ run' = 5
      ]_vars

\* C22 witness: the fifth interaction of a run has just been handled: the
\* modal is shown with the title "Design Demo" and the counter is 0.
C22_Witness ==
    /\ appPc = "mounted"
    /\ run = 5
    /\ idle = 0
    /\ showDemoModal
    /\ modalContent = "Design Demo"
    /\ clickCount = 0

\* C23: an interaction cancels the reset timeout scheduled before it and
\* schedules a new one, at most one reset timeout is pending at any time,
\* and once a full second has passed without interaction, the timeout's
\* callback having run, the counter is 0.
C23_OneResetPendingAndCounterCleared ==
    /\ [](/\ Cardinality(timeouts) <= 1
          /\ (appPc = "mounted" /\ idle >= 1000 /\ Due = {}) => clickCount = 0)
    /\ [][Interacts
            => /\ \A t \in timeouts : t.id = clickTimerRef => t \notin timeouts'
               /\ \E t \in timeouts' :
                    /\ t.id = clickTimerRef'
                    /\ t.remaining = 1000
                    /\ t \notin timeouts
         ]_vars

\* The pending reset timeouts the mounted component has scheduled.
OwnTimeouts == { t \in timeouts : t.owner = mounts }

\* C23 as the handler behaves: an interaction cancels the reset timeout the
\* component scheduled before it and schedules a new one, so at most one
\* reset timeout of the mounted component is pending, and once a full second
\* has passed without interaction, the timeout's callback having run, the
\* counter is 0.  Unmounting cancels nothing: every former mount may have
\* left one timeout pending, whose callback leaves the counter as it is.
C23_OneResetPendingPerMount ==
    /\ [](/\ Cardinality(OwnTimeouts) <= 1
          /\ \A t, u \in timeouts : t.owner = u.owner => t = u
          /\ (appPc = "mounted" /\ idle >= 1000 /\ Due = {}) => clickCount = 0)
    /\ [][/\ Interacts
               => /\ \A t \in timeouts : t.id = clickTimerRef => t \notin timeouts'
                  /\ \E t \in timeouts' :
                       /\ t.id = clickTimerRef'
                       /\ t.remaining = 1000
                       /\ t \notin timeouts
          /\ \A t \in timeouts :
               (t.owner # mounts /\ t.remaining = 0 /\ t \notin timeouts')
                 => clickCount' = clickCount
         ]_vars

\* C23 witness: the mounted component has one reset timeout pending and a
\* former mount's timeout is pending too.
C23_Witness ==
    /\ appPc = "mounted"
    /\ clickCount = 1
    /\ Cardinality(OwnTimeouts) = 1
    /\ \E u \in timeouts : u.owner # mounts

\* A step of the running activate handler: it starts, one of its deletes
\* settles, or it ends.
ActivateHandlerStep ==
    \/ activeState # "deleting" /\ activeState' = "deleting"
    \/ activeState = "deleting" /\ (toDelete' # toDelete \/ activeState' # activeState)

\* C24: no step of an activate handler removes the bucket named by its
\* worker's CACHE_NAME or changes that bucket's entries, the handler never
\* calls delete for that name, and when it starts with no other bucket in
\* the storage it calls no delete at all.
C24_ActivateKeepsOwnBucket ==
    [][ActivateHandlerStep
         => /\ active'.CACHE_NAME \notin toDelete'
            /\ active'.CACHE_NAME \in Range(cacheNames)
                 => active'.CACHE_NAME \in Range(cacheNames')
            /\ store'[active'.CACHE_NAME] = store[active'.CACHE_NAME]
            /\ (activeState # "deleting"
                  /\ Range(cacheNames) \subseteq {active'.CACHE_NAME})
                 => toDelete' = {} /\ UNCHANGED << cacheNames, store, console >>
      ]_vars

\* C24 witness: the first version was activated with only its own bucket
\* in the storage; the handler has ended, the bucket holds every locator of
\* the list and no delete was logged.
C24_Witness ==
    /\ activeState = "activated"
    /\ active.id = 1
    /\ deploys = 1
    /\ cacheNames = << active.CACHE_NAME >>
    /\ BucketHolds(active.CACHE_NAME, active.ASSETS_TO_CACHE)
    /\ "Clearing old cache" \notin console

\* The record of a fetch event carries one outcome when the event is
\* answered and none before: the stored response of a lookup that hit and no
\* network request, or the response of the one network request, or that
\* request's failure and no response.
OneOutcome(f) ==
    /\ f.pc = "done" <=> f.source # ""
    /\ f.pc = "done" =>
         \/ f.source = "cache" /\ f.resp # NoEntry /\ f.from # ""
                               /\ f.netReqs = 0
         \/ f.source = "network" /\ f.resp # NoEntry /\ f.from = ""
                                 /\ f.netReqs = 1
         \/ f.source = "error" /\ f.resp = NoEntry /\ f.from = ""
                               /\ f.netReqs = 1

\* C25: when the lookup and the network request of every fetch event
\* complete, each event in flight is eventually answered; the answer is the
\* stored response, the network's response or the network's failure, exactly
\* one of them, and an answer once given is not replaced by another.
C25_FetchSettledWithOneOutcome ==
    /\ [](\A s \in Slots : OneOutcome(fetches[s]))
    /\ [][\A s \in Slots :
            (fetches[s].pc = "done" /\ fetches'[s].pc = "done")
              => fetches'[s] = fetches[s]]_vars
    /\ \A s \in 1..MaxConcurrent :
         Pending(fetches[s]) ~> fetches[s].pc = "done"

\* C25 witness: two fetch events were in flight together; one is answered
\* with the network's response after a lookup that missed while the other's
\* network request is still pending.
C25_Witness ==
    \E s, t \in Slots :
      /\ fetches[s].pc = "done"
      /\ fetches[s].source = "network"
      /\ fetches[s].netReqs = 1
      /\ fetches[t].pc = "network"

\* A step of a timer callback: a tick starts or goes on.
TickStep == now' # now \/ tickPc' # tickPc

\* C26: the step that unmounts the component runs the interval effect's
\* cleanup, which leaves no live timer and no callback under way; from then
\* on, until the component is rendered again, no tick runs and the chart
\* series, sectors, tickers and portfolio value stay as they were.
C26_NoTickAfterCleanup ==
    /\ [][(appPc = "mounted" /\ appPc' = "unmounted")
            => /\ timers' = 0
               /\ tickPc' = "idle"
               /\ UNCHANGED << chartData, sectors, tickerData,
                               portfolioValue >>]_vars
    /\ [][appPc = "unmounted"
            => /\ ~TickStep
               /\ appPc' = "unmounted"
                    => UNCHANGED << chartData, sectors, tickerData,
                                    portfolioValue, timers >>]_vars

\* C26 witness: the component was unmounted after a tick had run, with ticks
\* still to come had the timer stayed live; no timer is live and the series
\* ends with the point that tick appended.
C26_Witness ==
    /\ appPc = "unmounted"
    /\ mounts >= 1
    /\ now >= 1
    /\ now < MaxTicks
    /\ timers = 0
    /\ chartData # << >>
    /\ chartData[Len(chartData)].time = now
====
